---- MODULE Spec2Model ----
(***************************************************************************)
(* Data Quality Profiler & Anomaly Detection (04_data_analysis_python.py). *)
(*                                                                         *)
(* The script builds two in-memory tables (df_fin, df_hc) at import time   *)
(* and, when run as a program, passes them through five report modules in  *)
(* a fixed order.  The modules are also plain functions that accept any    *)
(* table.  Three specifications are given:                                 *)
(*   Spec     : the program run (the __main__ block) on the built tables;  *)
(*   FairSpec : the same run with weak fairness, for termination;          *)
(*   SpecApi  : the modules called as functions, in any order and with     *)
(*              any arguments, on caller-supplied tables.                  *)
(*                                                                         *)
(* Conventions.  A table is [columns |-> <<names>>, rows |-> <<records>>]. *)
(* Dates are day numbers relative to today (0 = today, -3 = 3 days ago).   *)
(* A float that may be NaN is <<>> (NaN) or <<k>>, k the value in the      *)
(* fixed-point unit of the place it is printed or rounded at: hundredths   *)
(* for round(2) / :.2f, tenths for round(.,1) / :.1f.  Arithmetic is exact *)
(* (rational), rounding is round-half-to-even as numpy and str.format do.  *)
(* Text written to stdout is a sequence of report records, one per module  *)
(* call, holding the values its print statements show.                     *)
(***************************************************************************)
EXTENDS Integers, Sequences, FiniteSets, TLC

VARIABLES df_fin, df_hc, pc, out, chart, chart_saves

vars == <<df_fin, df_hc, pc, out, chart, chart_saves>>

(***************************************************************************)
(* Bounds of the model.                                                    *)
(***************************************************************************)
MaxFinRows == 3
MaxHcRows == 2
BulkRows == 9
MaxSaves == 1

(***************************************************************************)
(* Program constants.                                                      *)
(***************************************************************************)
sla_map == [P1 |-> 4, P2 |-> 24, P3 |-> 72]
MainZThreshold == 300
MainGapThreshold == 5

\* A missing cell (None / NaN) of a text column.
NULL == "<NULL>"
\* What `array[i] = None` stores in a numpy fixed-width text array: str(None).
NumpyStrNone == "None"
NaN == <<>>

TextColumns ==
  {"partner_id", "program_code", "status", "customer_id", "case_type",
   "priority", "assigned_team", "sla_status"}

(***************************************************************************)
(* Arithmetic helpers.                                                     *)
(***************************************************************************)
Abs(x) == IF x < 0 THEN -x ELSE x

Range(s) == {s[i] : i \in DOMAIN s}

RECURSIVE SumSeq(_)
SumSeq(s) == IF s = <<>> THEN 0 ELSE Head(s) + SumSeq(Tail(s))

RECURSIVE Repeat(_, _)
Repeat(x, k) == IF k = 0 THEN <<>> ELSE <<x>> \o Repeat(x, k - 1)

\* num / den (den > 0) rounded to the nearest integer, ties to even.
RoundHalfEven(num, den) ==
  LET q == num \div den
      r == num % den
  IN  IF 2 * r > den THEN q + 1
      ELSE IF 2 * r < den THEN q
      ELSE IF q % 2 = 0 THEN q ELSE q + 1

\* floor(sqrt(q)), q >= 0: it is 2 g or 2 g + 1 with g = floor(sqrt(q div 4)).
RECURSIVE ISqrt(_)
ISqrt(q) ==
  IF q < 2 THEN q
  ELSE CHOOSE f \in {2 * g + b : g \in {ISqrt(q \div 4)}, b \in {0, 1}} :
         f * f <= q /\ q < (f + 1) * (f + 1)

\* sqrt(num / den) (num >= 0, den > 0) rounded to the nearest integer, ties
\* to even: with f = floor(sqrt(Q)), sqrt(Q) >= f + 1/2 iff Q >= f^2 + f + 1/4.
RoundSqrt(num, den) ==
  LET q == num \div den
      r == num % den
      f == ISqrt(q)
      h == f * f + f
  IN  IF q > h \/ (q = h /\ 4 * r > den) THEN f + 1
      ELSE IF q = h /\ 4 * r = den THEN (IF f % 2 = 0 THEN f ELSE f + 1)
      ELSE f

(***************************************************************************)
(* Table helpers (the pandas operations the script uses).                  *)
(***************************************************************************)
Column(df, c) == [i \in DOMAIN df.rows |-> df.rows[i][c]]

HasColumn(df, c) == c \in Range(df.columns)

\* df.isnull(): the numeric and date columns of the tables never hold NaN.
IsNullCell(c, v) == c \in TextColumns /\ v = NULL

\* df[mask]: the rows, in order, whose index satisfies the mask.
RECURSIVE FilterIdx(_, _, _)
FilterIdx(n, i, mask) ==
  IF i > n THEN <<>>
  ELSE (IF mask[i] THEN <<i>> ELSE <<>>) \o FilterIdx(n, i + 1, mask)

RowsAt(df, idx) == [k \in DOMAIN idx |-> df.rows[idx[k]]]

\* Series.mean() at `scale` fixed-point units per 1, NaN on an empty series.
MeanAt(s, scale) ==
  IF Len(s) = 0 THEN NaN ELSE <<RoundHalfEven(scale * SumSeq(s), Len(s))>>

\* round(100.0 * part / whole, 1) and f"{part/whole*100:.1f}", in tenths.
PctTenths(part, whole) == RoundHalfEven(1000 * part, whole)

\* df.groupby(key): one group per distinct non-null key (pandas drops rows
\* whose key is null, dropna=True being the default).
GroupKeys(df, key) ==
  {df.rows[i][key] : i \in {j \in DOMAIN df.rows : ~IsNullCell(key, df.rows[j][key])}}

Group(df, key, k) == SelectSeq(df.rows, LAMBDA r : r[key] = k)

\* Series.value_counts(): count per distinct non-null value.
ValueCounts(df, c) ==
  [v \in GroupKeys(df, c) |-> Len(Group(df, c, v))]

(***************************************************************************)
(* SECTION 1: construction of df_fin.                                      *)
(***************************************************************************)
FinColumns ==
  <<"transaction_id", "partner_id", "program_code", "transaction_date",
    "settlement_date", "incentive_amount", "status", "days_to_settle">>

\* f"TXN{str(i).zfill(5)}" : injective in i, kept as the pair.
TxnId(i) == <<"TXN", i>>

\* fin_data after generation and the injected issues: row i carries TXN i,
\* except that, when dup > 0, row dup carries the id of the row before it.
FinData(rows, dup) ==
  [i \in DOMAIN rows |->
     [transaction_id   |-> IF i = dup THEN TxnId(i - 1) ELSE TxnId(i),
      partner_id       |-> rows[i].partner_id,
      program_code     |-> rows[i].program_code,
      transaction_date |-> rows[i].transaction_date,
      settlement_date  |-> rows[i].settlement_date,
      incentive_amount |-> rows[i].incentive_amount,
      status           |-> rows[i].status]]

\* (settlement_date - transaction_date).dt.days
DaysToSettle(r) == r.settlement_date - r.transaction_date

DfFin(fin_data) ==
  [columns |-> FinColumns,
   rows    |-> [i \in DOMAIN fin_data |->
                 [transaction_id   |-> fin_data[i].transaction_id,
                  partner_id       |-> fin_data[i].partner_id,
                  program_code     |-> fin_data[i].program_code,
                  transaction_date |-> fin_data[i].transaction_date,
                  settlement_date  |-> fin_data[i].settlement_date,
                  incentive_amount |-> fin_data[i].incentive_amount,
                  status           |-> fin_data[i].status,
                  days_to_settle   |-> DaysToSettle(fin_data[i])]]]

(***************************************************************************)
(* SECTION 2: construction of df_hc.                                       *)
(***************************************************************************)
HcColumns ==
  <<"case_id", "customer_id", "case_type", "priority", "assigned_team",
    "created_date", "resolution_hours", "status", "sla_threshold", "sla_status">>

CaseId(i) == <<"CASE", i>>

HcData(rows) ==
  [i \in DOMAIN rows |->
     [case_id          |-> CaseId(i),
      customer_id      |-> rows[i].customer_id,
      case_type        |-> rows[i].case_type,
      priority         |-> rows[i].priority,
      assigned_team    |-> rows[i].assigned_team,
      created_date     |-> rows[i].created_date,
      resolution_hours |-> rows[i].resolution_hours,
      status           |-> rows[i].status]]

\* df_hc["priority"].map(sla_map)
SlaThreshold(priority) == sla_map[priority]

SlaStatusGE(hours, threshold) ==
  IF hours >= threshold THEN "SLA_BREACH" ELSE "WITHIN_SLA"

\* np.where(resolution_hours > sla_threshold, "SLA_BREACH", "WITHIN_SLA")
SlaStatus(hours, threshold) ==
  IF hours > threshold THEN "SLA_BREACH" ELSE "WITHIN_SLA"

DfHc(hc_data) ==
  [columns |-> HcColumns,
   rows    |-> [i \in DOMAIN hc_data |->
                 [case_id          |-> hc_data[i].case_id,
                  customer_id      |-> hc_data[i].customer_id,
                  case_type        |-> hc_data[i].case_type,
                  priority         |-> hc_data[i].priority,
                  assigned_team    |-> hc_data[i].assigned_team,
                  created_date     |-> hc_data[i].created_date,
                  resolution_hours |-> hc_data[i].resolution_hours,
                  status           |-> hc_data[i].status,
                  sla_threshold    |-> SlaThreshold(hc_data[i].priority),
                  sla_status       |-> SlaStatus(hc_data[i].resolution_hours,
                                                 SlaThreshold(hc_data[i].priority))]]]

(***************************************************************************)
(* The tables the model is run on.  Rows vary one factor at a time around  *)
(* a typical row; `missing` is what a missing text cell holds: the text    *)
(* "None" after the script's own injection into a numpy text array, a real *)
(* null in a table a caller supplies.                                      *)
(***************************************************************************)
BaseFin ==
  [partner_id |-> "P001", program_code |-> "PROG_A", transaction_date |-> -3,
   settlement_date |-> -1, incentive_amount |-> 1, status |-> "SETTLED"]

FinRows(missing) ==
  { BaseFin,
    [BaseFin EXCEPT !.incentive_amount = -1],
    [BaseFin EXCEPT !.incentive_amount = 6, !.program_code = "PROG_B",
                    !.status = "PENDING"],
    [BaseFin EXCEPT !.transaction_date = -5, !.settlement_date = 0],
    [BaseFin EXCEPT !.transaction_date = -6, !.settlement_date = 0],
    [BaseFin EXCEPT !.transaction_date = 0, !.settlement_date = -2],
    [BaseFin EXCEPT !.partner_id = missing] }

BaseHc ==
  [customer_id |-> "CUST0001", case_type |-> "Billing", priority |-> "P2",
   assigned_team |-> "Team_Alpha", created_date |-> -1, resolution_hours |-> 1,
   status |-> "Resolved"]

HcRows(missing) ==
  { [BaseHc EXCEPT !.priority = p, !.resolution_hours = h] :
      <<p, h>> \in { t \in {"P1", "P2", "P3"} \X (1..(sla_map.P3 + 1)) :
                       t[2] \in {1, sla_map[t[1]], sla_map[t[1]] + 1} } }
  \cup
  { [BaseHc EXCEPT !.assigned_team = "Team_Beta", !.resolution_hours = 25,
                   !.case_type = "Software Issue", !.status = "Open"],
    [BaseHc EXCEPT !.assigned_team = missing],
    [BaseHc EXCEPT !.customer_id = missing, !.resolution_hours = 25] }

SeqsUpTo(S, lo, hi) == UNION {[1..k -> S] : k \in lo..hi}

\* Where the duplicate id may sit: nowhere, or (when the script's injection
\* is modelled) on the last of the rows.
DupChoices(rows, inject) ==
  IF inject /\ Len(rows) >= 2 THEN {0, Len(rows)} ELSE {0}

FinTables(missing, lo, hi, bulks, inject) ==
  { DfFin(FinData(t[1] \o Repeat(BaseFin, t[2]), t[3])) :
      t \in { u \in SeqsUpTo(FinRows(missing), lo, hi) \X bulks \X (0..hi) :
                u[3] \in DupChoices(u[1], inject) } }

HcTables(missing, lo, hi) ==
  { DfHc(HcData(rows)) : rows \in SeqsUpTo(HcRows(missing), lo, hi) }

TypicalFin == DfFin(FinData(<<BaseFin, [BaseFin EXCEPT !.incentive_amount = 6]>>, 0))

TypicalHc == DfHc(HcData(<<BaseHc, [BaseHc EXCEPT !.resolution_hours = 25]>>))

(***************************************************************************)
(* MODULE 1: profile_dataframe.                                            *)
(***************************************************************************)
\* df.isnull().sum()
NullCount(df, c) ==
  Cardinality({i \in DOMAIN df.rows : IsNullCell(c, df.rows[i][c])})

\* (df.isnull().mean() * 100).round(2), in hundredths of a percent.
NullPct(df, c) ==
  IF Len(df.rows) = 0 THEN NaN
  ELSE <<RoundHalfEven(10000 * NullCount(df, c), Len(df.rows))>>

NullListedGT1(df, c) == NullCount(df, c) > 1

\* null_report[null_report["null_count"] > 0]
NullListed(df, c) == NullCount(df, c) > 0

NullReport(df) ==
  LET idx == FilterIdx(Len(df.columns), 1,
                       [k \in DOMAIN df.columns |-> NullListed(df, df.columns[k])])
  IN  [k \in DOMAIN idx |->
         [column     |-> df.columns[idx[k]],
          null_count |-> NullCount(df, df.columns[idx[k]]),
          null_pct   |-> NullPct(df, df.columns[idx[k]])]]

ProfileDataframe(df, domain_name) ==
  LET null_report == NullReport(df)
      cat_col == IF HasColumn(df, "program_code") THEN "program_code" ELSE "case_type"
  IN  [module      |-> "profile",
       domain      |-> domain_name,
       records     |-> Len(df.rows),
       null_report |-> null_report,
       no_nulls    |-> (null_report = <<>>),
       category    |-> cat_col,
       counts      |-> ValueCounts(df, cat_col)]

(***************************************************************************)
(* MODULE 2: detect_amount_anomalies.                                      *)
(***************************************************************************)
\* n * sum(v^2) - sum(v)^2  =  n * sum((v - mean)^2)
Dispersion(s) ==
  Len(s) * SumSeq([i \in DOMAIN s |-> s[i] * s[i]]) - SumSeq(s) * SumSeq(s)

\* Series.std() (sample standard deviation, ddof = 1: D / (n (n-1)) under
\* the root), in hundredths.
StdAt100(s) ==
  IF Len(s) < 2 THEN NaN
  ELSE <<RoundSqrt(10000 * Dispersion(s), Len(s) * (Len(s) - 1))>>

\* ((v - mean) / std).round(2), in hundredths: z^2 = A^2 (n-1) / (n D) with
\* A = n v - sum.  NaN when std is NaN (n < 2) or the quotient is 0 / 0.
ZScore(s, i) ==
  LET n == Len(s)
      A == n * s[i] - SumSeq(s)
      D == Dispersion(s)
  IN  IF n < 2 \/ D = 0 THEN NaN
      ELSE LET k == RoundSqrt(10000 * A * A * (n - 1), n * D)
           IN  <<IF A < 0 THEN -k ELSE k>>

ZScores(df, column) ==
  LET s == Column(df, column) IN [i \in DOMAIN s |-> ZScore(s, i)]

WithZScore(df, z) ==
  [columns |-> Append(df.columns, "z_score"),
   rows    |-> [i \in DOMAIN df.rows |->
                 [c \in DOMAIN df.rows[i] \cup {"z_score"} |->
                    IF c = "z_score" THEN z[i] ELSE df.rows[i][c]]]]

AnomalyFramesNoCopy(df, column) ==
  [caller |-> WithZScore(df, ZScores(df, column)),
   local  |-> WithZScore(df, ZScores(df, column))]

\* df = df.copy(); df["z_score"] = ... : the caller's table, and the local one.
AnomalyFrames(df, column) ==
  [caller |-> df,
   local  |-> WithZScore(df, ZScores(df, column))]

\* df["z_score"].abs() > threshold  (a comparison with NaN is False)
AnomalyMask(local, threshold) ==
  [i \in DOMAIN local.rows |->
     local.rows[i].z_score # NaN /\ Abs(local.rows[i].z_score[1]) > threshold]

DetectAmountAnomalies(df, column, threshold) ==
  LET s         == Column(df, column)
      local     == AnomalyFrames(df, column).local
      idx       == FilterIdx(Len(local.rows), 1, AnomalyMask(local, threshold))
      anomalies == RowsAt(local, idx)
  IN  [module    |-> "anomaly",
       column    |-> column,
       threshold |-> threshold,
       mean      |-> MeanAt(s, 100),
       std       |-> StdAt100(s),
       found     |-> Len(anomalies),
       rows      |-> [k \in DOMAIN anomalies |->
                       [transaction_id |-> anomalies[k].transaction_id,
                        partner_id     |-> anomalies[k].partner_id,
                        program_code   |-> anomalies[k].program_code,
                        value          |-> anomalies[k][column],
                        z_score        |-> anomalies[k].z_score,
                        status         |-> anomalies[k].status]]]

(***************************************************************************)
(* MODULE 3: analyze_sla_breaches.                                         *)
(***************************************************************************)
\* (x["sla_status"] == "SLA_BREACH").sum()
BreachCount(rows) == Len(SelectSeq(rows, LAMBDA r : r.sla_status = "SLA_BREACH"))

Hours(rows) == [i \in DOMAIN rows |-> rows[i].resolution_hours]

\* df.groupby("priority").apply(...)
PrioritySummary(df) ==
  [p \in GroupKeys(df, "priority") |->
     LET x == Group(df, "priority", p)
     IN  [total         |-> Len(x),
          breaches      |-> BreachCount(x),
          breach_pct    |-> PctTenths(BreachCount(x), Len(x)),
          avg_res_hours |-> MeanAt(Hours(x), 10)]]

\* df.groupby("assigned_team").apply(...); the sort by breach_pct orders the
\* printed lines and changes no value.
TeamSummary(df) ==
  [t \in GroupKeys(df, "assigned_team") |->
     LET x == Group(df, "assigned_team", t)
     IN  [total      |-> Len(x),
          breaches   |-> BreachCount(x),
          breach_pct |-> PctTenths(BreachCount(x), Len(x))]]

AnalyzeSlaBreaches(df) ==
  LET total    == Len(df.rows)
      breaches == BreachCount(df.rows)
  IN  IF total = 0
      THEN [module |-> "sla", total |-> total, error |-> "ZeroDivisionError"]
      ELSE [module      |-> "sla",
            total       |-> total,
            breaches    |-> breaches,
            breach_pct  |-> PctTenths(breaches, total),
            by_priority |-> PrioritySummary(df),
            by_team     |-> TeamSummary(df)]

(***************************************************************************)
(* MODULE 4: analyze_settlement_gaps.                                      *)
(***************************************************************************)
GapBreachIdxGE(df, threshold_days) ==
  FilterIdx(Len(df.rows), 1,
            [i \in DOMAIN df.rows |-> df.rows[i].days_to_settle >= threshold_days])

\* df[df["days_to_settle"] > threshold_days]
GapBreachIdx(df, threshold_days) ==
  FilterIdx(Len(df.rows), 1,
            [i \in DOMAIN df.rows |-> df.rows[i].days_to_settle > threshold_days])

AnalyzeSettlementGaps(df, threshold_days) ==
  LET breaches == RowsAt(df, GapBreachIdx(df, threshold_days))
      gaps(rows) == [i \in DOMAIN rows |-> rows[i].days_to_settle]
  IN  IF Len(df.rows) = 0
      THEN [module |-> "gaps", threshold_days |-> threshold_days,
            total_records |-> 0, error |-> "ZeroDivisionError"]
      ELSE [module           |-> "gaps",
            threshold_days   |-> threshold_days,
            total_records    |-> Len(df.rows),
            gap_breaches     |-> Len(breaches),
            breach_pct       |-> PctTenths(Len(breaches), Len(df.rows)),
            avg_gap_all      |-> MeanAt(gaps(df.rows), 10),
            \* the line is printed only `if not breaches.empty`
            avg_gap_breaches |-> IF breaches # <<>>
                                 THEN MeanAt(gaps(breaches), 10) ELSE <<>>]

(***************************************************************************)
(* MODULE 5: generate_dashboard.                                           *)
(***************************************************************************)
ChartFile == "production_support_dashboard.png"

\* What the four panels draw.
Dashboard(fin, hc) ==
  [amounts       |-> Column(fin, "incentive_amount"),
   mean_line     |-> MeanAt(Column(fin, "incentive_amount"), 100),
   status_counts |-> ValueCounts(fin, "status"),
   sla_summary   |-> [p \in {"P1", "P2", "P3"} |->
                        IF p \in GroupKeys(hc, "priority")
                        THEN <<PctTenths(BreachCount(Group(hc, "priority", p)),
                                         Len(Group(hc, "priority", p)))>>
                        ELSE NaN],
   team_avg      |-> [t \in GroupKeys(hc, "assigned_team") |->
                        MeanAt(Hours(Group(hc, "assigned_team", t)), 10)]]

DashboardReport == [module |-> "dashboard", saved |-> ChartFile]

CompleteReport == [module |-> "complete", text |-> "REPORT COMPLETE"]

(***************************************************************************)
(* MAIN: the program run.  The tables are the ones the script builds, so   *)
(* they are never empty and a missing text cell holds the text "None".     *)
(***************************************************************************)
ZColumns == {"incentive_amount"}
ZThresholds == {100, 115, MainZThreshold}
GapThresholds == {MainGapThreshold, MainGapThreshold + 1}

\* The built tables: one of them varies, the other is a typical one.
Built(fin_rows, bulks, hc_rows) ==
  \/ /\ df_fin \in FinTables(NumpyStrNone, 1, fin_rows, bulks, TRUE)
     /\ df_hc = TypicalHc
  \/ /\ df_fin = TypicalFin
     /\ df_hc \in HcTables(NumpyStrNone, 1, hc_rows)

Started ==
  /\ pc = "profile_fin"
  /\ out = <<>>
  /\ chart = <<>>
  /\ chart_saves = 0

Init == Built(MaxFinRows, {0, BulkRows}, MaxHcRows) /\ Started

MainProfileFin ==
  /\ pc = "profile_fin"
  /\ out' = Append(out, ProfileDataframe(df_fin, "Financial Services"))
  /\ pc' = "anomalies"
  /\ UNCHANGED <<df_fin, df_hc, chart, chart_saves>>

MainDetectAnomalies ==
  /\ pc = "anomalies"
  /\ out' = Append(out, DetectAmountAnomalies(df_fin, "incentive_amount", MainZThreshold))
  /\ df_fin' = AnomalyFrames(df_fin, "incentive_amount").caller
  /\ pc' = "gaps"
  /\ UNCHANGED <<df_hc, chart, chart_saves>>

MainSettlementGaps ==
  /\ pc = "gaps"
  /\ out' = Append(out, AnalyzeSettlementGaps(df_fin, MainGapThreshold))
  /\ pc' = "profile_hc"
  /\ UNCHANGED <<df_fin, df_hc, chart, chart_saves>>

MainProfileHc ==
  /\ pc = "profile_hc"
  /\ out' = Append(out, ProfileDataframe(df_hc, "Healthcare"))
  /\ pc' = "sla"
  /\ UNCHANGED <<df_fin, df_hc, chart, chart_saves>>

MainSlaBreaches ==
  /\ pc = "sla"
  /\ out' = Append(out, AnalyzeSlaBreaches(df_hc))
  /\ pc' = "dashboard"
  /\ UNCHANGED <<df_fin, df_hc, chart, chart_saves>>

MainDashboardUnsaved ==
  /\ pc = "dashboard"
  /\ out' = Append(out, DashboardReport)
  /\ pc' = "complete"
  /\ UNCHANGED <<df_fin, df_hc, chart, chart_saves>>

\* plt.savefig(...) writes the file, then the "Chart saved" line is printed.
MainDashboard ==
  /\ pc = "dashboard"
  /\ chart' = <<Dashboard(df_fin, df_hc)>>
  /\ chart_saves' = chart_saves + 1
  /\ out' = Append(out, DashboardReport)
  /\ pc' = "complete"
  /\ UNCHANGED <<df_fin, df_hc>>

MainComplete ==
  /\ pc = "complete"
  /\ out' = Append(out, CompleteReport)
  /\ pc' = "done"
  /\ UNCHANGED <<df_fin, df_hc, chart, chart_saves>>

Next ==
  \/ MainProfileFin
  \/ MainDetectAnomalies
  \/ MainSettlementGaps
  \/ MainProfileHc
  \/ MainSlaBreaches
  \/ MainDashboard
  \/ MainComplete

Spec == Init /\ [][Next]_vars

\* The script is straight-line code: each statement, once reached, runs.
\* Control does not depend on the data, so the fair runs are taken over the
\* one-row tables (and the typical two-row ones).
FairInit == Built(1, {0}, 1) /\ Started

FairSpec == FairInit /\ [][Next]_vars /\ WF_vars(Next)

(***************************************************************************)
(* The modules called as functions on caller-supplied tables, which may be *)
(* empty and may hold real nulls.  `out` is what the latest call printed.  *)
(***************************************************************************)
ApiInit ==
  /\ \/ /\ df_fin \in FinTables(NULL, 0, MaxFinRows, {0}, FALSE)
        /\ df_hc = TypicalHc
     \/ /\ df_fin = TypicalFin
        /\ df_hc \in HcTables(NULL, 0, MaxHcRows)
  /\ pc = "imported"
  /\ out = <<>>
  /\ chart = <<>>
  /\ chart_saves = 0

ApiProfileFin ==
  /\ out' = <<ProfileDataframe(df_fin, "Financial Services")>>
  /\ UNCHANGED <<df_fin, df_hc, pc, chart, chart_saves>>

ApiProfileHc ==
  /\ out' = <<ProfileDataframe(df_hc, "Healthcare")>>
  /\ UNCHANGED <<df_fin, df_hc, pc, chart, chart_saves>>

ApiDetectAnomalies ==
  \E column \in ZColumns, threshold \in ZThresholds :
    /\ out' = <<DetectAmountAnomalies(df_fin, column, threshold)>>
    /\ df_fin' = AnomalyFrames(df_fin, column).caller
    /\ UNCHANGED <<df_hc, pc, chart, chart_saves>>

ApiSettlementGaps ==
  \E threshold_days \in GapThresholds :
    /\ out' = <<AnalyzeSettlementGaps(df_fin, threshold_days)>>
    /\ UNCHANGED <<df_fin, df_hc, pc, chart, chart_saves>>

ApiSlaBreaches ==
  /\ out' = <<AnalyzeSlaBreaches(df_hc)>>
  /\ UNCHANGED <<df_fin, df_hc, pc, chart, chart_saves>>

\* Called on non-empty tables (what matplotlib does with empty input is not
\* modelled); the number of saves is capped to keep the state space finite.
ApiDashboard ==
  /\ df_fin.rows # <<>> /\ df_hc.rows # <<>>
  /\ chart_saves < MaxSaves
  /\ chart' = <<Dashboard(df_fin, df_hc)>>
  /\ chart_saves' = chart_saves + 1
  /\ out' = <<DashboardReport>>
  /\ UNCHANGED <<df_fin, df_hc, pc>>

ApiNext ==
  \/ ApiProfileFin
  \/ ApiProfileHc
  \/ ApiDetectAnomalies
  \/ ApiSettlementGaps
  \/ ApiSlaBreaches
  \/ ApiDashboard

SpecApi == ApiInit /\ [][ApiNext]_vars

(***************************************************************************)
(*                              PROPERTIES                                 *)
(***************************************************************************)
Reports(module) == {k \in DOMAIN out : out[k].module = module}

Failed(r) == "error" \in DOMAIN r

RECURSIVE SumField(_, _, _)
\* Sum of summary[g][field] over the groups g in keys.
SumField(summary, keys, field) ==
  IF keys = {} THEN 0
  ELSE LET g == CHOOSE x \in keys : TRUE
       IN  summary[g][field] + SumField(summary, keys \ {g}, field)

(***************************************************************************)
(* C1: SLA breach classification.  Every healthcare case is labelled       *)
(* SLA_BREACH exactly when its resolution_hours is strictly greater than   *)
(* the threshold of its priority (P1 4 h, P2 24 h, P3 72 h) and WITHIN_SLA *)
(* otherwise; a case at exactly its threshold is WITHIN_SLA.               *)
(***************************************************************************)
C1_SlaClassification ==
  \A i \in DOMAIN df_hc.rows :
    LET r   == df_hc.rows[i]
        thr == CASE r.priority = "P1" -> 4
                 [] r.priority = "P2" -> 24
                 [] r.priority = "P3" -> 72
    IN  /\ r.sla_status \in {"SLA_BREACH", "WITHIN_SLA"}
        /\ (r.sla_status = "SLA_BREACH") <=> (r.resolution_hours > thr)
        /\ (r.resolution_hours = thr) => (r.sla_status = "WITHIN_SLA")

C1_Witness ==
  /\ pc = "done"
  /\ \E i, j \in DOMAIN df_hc.rows :
       /\ df_hc.rows[i].resolution_hours = df_hc.rows[i].sla_threshold
       /\ df_hc.rows[i].sla_status = "WITHIN_SLA"
       /\ df_hc.rows[j].resolution_hours = df_hc.rows[j].sla_threshold + 1
       /\ df_hc.rows[j].sla_status = "SLA_BREACH"

(***************************************************************************)
(* C2: null detection.  The null report of profile_dataframe lists exactly *)
(* the columns holding at least one null, each once, with null_count the   *)
(* number of null cells of the column and null_pct = 100 * null_count /    *)
(* rows to 2 decimals; "No null values detected." is printed exactly when  *)
(* no column holds a null.                                                 *)
(***************************************************************************)
Profiled(r) == IF r.domain = "Financial Services" THEN df_fin ELSE df_hc

NullCells(df, c) == {i \in DOMAIN df.rows : IsNullCell(c, df.rows[i][c])}

ExactAnomalyIdx(df, column, threshold) ==
  LET s == Column(df, column)
      n == Len(s)
      D == Dispersion(s)
  IN  FilterIdx(n, 1,
        [i \in DOMAIN s |->
           /\ n >= 2
           /\ D > 0
           /\ 10000 * (n * s[i] - SumSeq(s)) * (n * s[i] - SumSeq(s)) * (n - 1)
                > threshold * threshold * n * D])

C3_ExactZScoreAnomalies ==
  \A k \in Reports("anomaly") :
    LET r   == out[k]
        idx == ExactAnomalyIdx(df_fin, r.column, r.threshold)
    IN  /\ r.found = Len(idx)
        /\ Len(r.rows) = Len(idx)
        /\ \A j \in DOMAIN r.rows :
             /\ r.rows[j].transaction_id = df_fin.rows[idx[j]].transaction_id
             /\ r.rows[j].value = df_fin.rows[idx[j]][r.column]

(***************************************************************************)
(* C4: duplicate profiling.  When two rows of the transaction table share  *)
(* a transaction_id, the report of the run identifies that a duplicate     *)
(* record exists: some section states a duplicate count, or lists the two  *)
(* rows with their common id.                                              *)
(***************************************************************************)
HasDuplicateId(df) ==
  \E i, j \in DOMAIN df.rows :
    i # j /\ df.rows[i].transaction_id = df.rows[j].transaction_id

ReportShowsDuplicate ==
  \E k \in DOMAIN out :
    \/ "duplicates" \in DOMAIN out[k]
    \/ /\ out[k].module = "anomaly"
       /\ \E i, j \in DOMAIN out[k].rows :
            i # j /\ out[k].rows[i].transaction_id = out[k].rows[j].transaction_id

C4_DuplicatesReported ==
  (pc = "done" /\ HasDuplicateId(df_fin)) => ReportShowsDuplicate

(***************************************************************************)
(* C5: the program runs once to completion.  The modules run exactly once  *)
(* each in the order financial profile, anomaly detection, settlement      *)
(* gaps, healthcare profile, SLA breaches, dashboard; the chart is saved   *)
(* exactly once; REPORT COMPLETE is eventually printed, as the last output *)
(* and only after the chart has been saved.                                *)
(***************************************************************************)
RunOrder ==
  << <<"profile", "Financial Services">>, <<"anomaly">>, <<"gaps">>,
     <<"profile", "Healthcare">>, <<"sla">>, <<"dashboard">>, <<"complete">> >>

Section(r) == IF r.module = "profile" THEN <<r.module, r.domain>> ELSE <<r.module>>

RunInOrder ==
  /\ Len(out) <= Len(RunOrder)
  /\ \A k \in DOMAIN out : Section(out[k]) = RunOrder[k]
  /\ chart_saves = (IF Reports("dashboard") # {} THEN 1 ELSE 0)
  /\ (chart = <<>>) <=> (chart_saves = 0)
  /\ \A k \in Reports("complete") : k = Len(out) /\ chart_saves = 1

RunComplete ==
  /\ pc = "done"
  /\ Len(out) = Len(RunOrder)
  /\ out[Len(out)] = CompleteReport
  /\ chart_saves = 1

C5_RunsOnceToCompletion ==
  RunInOrder /\ [][RunInOrder']_vars /\ <>[]RunComplete

C5_Witness == RunComplete /\ chart # <<>>

(***************************************************************************)
(* C6: invalid negative amounts are surfaced.  Every row of the            *)
(* transaction table with a negative incentive_amount is reported as an    *)
(* issue by the financial report; the profile lists no rows, so the row    *)
(* must be among the anomalies.                                            *)
(***************************************************************************)
C6_NegativeAmountsReported ==
  pc = "done" =>
    \A i \in DOMAIN df_fin.rows :
      df_fin.rows[i].incentive_amount < 0 =>
        \E k \in Reports("anomaly") : \E j \in DOMAIN out[k].rows :
          /\ out[k].rows[j].transaction_id = df_fin.rows[i].transaction_id
          /\ out[k].rows[j].value = df_fin.rows[i].incentive_amount

(***************************************************************************)
(* C7: settlement gap analysis.  On a non-empty table the gap breaches are *)
(* exactly the rows with days_to_settle strictly greater than              *)
(* threshold_days (equal to it, or negative, is no breach), Total Records  *)
(* is the number of rows, and the "Avg Gap (breaches)" line is printed     *)
(* exactly when at least one row is a breach.                              *)
(***************************************************************************)
C7_SettlementGaps ==
  \A k \in Reports("gaps") :
    df_fin.rows # <<>> =>
      LET r    == out[k]
          late == {i \in DOMAIN df_fin.rows :
                     df_fin.rows[i].days_to_settle > r.threshold_days}
      IN  /\ ~Failed(r)
          /\ r.total_records = Len(df_fin.rows)
          /\ r.gap_breaches = Cardinality(late)
          /\ (r.avg_gap_breaches # <<>>) <=> (late # {})

C7_Witness ==
  \E k \in Reports("gaps") :
    /\ out[k].threshold_days = MainGapThreshold
    /\ Len(df_fin.rows) = 3
    /\ \E a, b, c \in DOMAIN df_fin.rows :
         /\ df_fin.rows[a].days_to_settle = MainGapThreshold
         /\ df_fin.rows[b].days_to_settle < 0
         /\ df_fin.rows[c].days_to_settle > MainGapThreshold
    /\ out[k].gap_breaches = 1
    /\ out[k].avg_gap_breaches # <<>>

(***************************************************************************)
(* C8: grouped aggregation accounts for every case.  In each breakdown of  *)
(* analyze_sla_breaches (by priority, by team) the group totals sum to     *)
(* Total Cases and the group breaches sum to SLA Breaches, also when a     *)
(* case has a null assigned_team; in every group 0 <= breaches <= total.   *)
(***************************************************************************)
AccountsForAll(summary, r) ==
  /\ SumField(summary, DOMAIN summary, "total") = r.total
  /\ SumField(summary, DOMAIN summary, "breaches") = r.breaches
  /\ \A g \in DOMAIN summary :
       0 <= summary[g].breaches /\ summary[g].breaches <= summary[g].total

C8_GroupsAccountForAll ==
  \A k \in Reports("sla") :
    ~Failed(out[k]) =>
      /\ AccountsForAll(out[k].by_priority, out[k])
      /\ AccountsForAll(out[k].by_team, out[k])

(***************************************************************************)
(* C9: the report modules are read-only on their inputs.  No call changes  *)
(* the columns or the cells of df_fin or df_hc; the z_score column of      *)
(* detect_amount_anomalies goes to a private copy and is never seen by a   *)
(* later module.                                                           *)
(***************************************************************************)
C9_InputsUnchanged ==
  [][/\ df_fin' = df_fin
     /\ df_hc' = df_hc
     /\ ~HasColumn(df_fin', "z_score")]_vars

C9_Witness ==
  /\ \E k \in Reports("anomaly") : out[k].found > 0
  /\ chart_saves > 0
  /\ ~HasColumn(df_fin, "z_score")

====
